---- MODULE Spec2Model ----
(***************************************************************************)
(* UnboundedNapMap (src/src/unbounded.rs): a map whose get() suspends the  *)
(* calling task until a value for the key is inserted.                     *)
(*                                                                         *)
(* Tasks make calls (insert, get or remove) one after the other, MaxCalls   *)
(* calls in all.  Each await point and each guard drop of the source is    *)
(* one step, so that every interleaving of the tasks on a multi-threaded   *)
(* runtime is a behaviour of the model.                                    *)
(* tokio's RwLock, Mutex and Notify are modelled by what the calls the     *)
(* source makes do to them.  History variables record, per task, the facts *)
(* about the past that the properties below speak of; no action's guard    *)
(* reads them.                                                             *)
(*                                                                         *)
(* CancelSpec adds the cancellation of a task suspended in get.            *)
(* BoundedSpec is the bounded variant (src/src/lib.rs declares mod         *)
(* bounded): the same algorithm behind a capacity gate of Capacity         *)
(* permits, as section 4.4 of the specification describes it.              *)
(***************************************************************************)
EXTENDS Naturals, FiniteSets, TLC

NTasks == 2
NKeys  == 2
NVals  == 2
\* calls made in all, by all the tasks together
MaxCalls == 3

\* bounded variant: the capacity N given to the constructor
Capacity == 1

Tasks == 1..NTasks
Keys  == 1..NKeys
Vals  == 1..NVals
None  == 0
\* Arc<Notify> objects alive at once: at most one held per task, and one per
\* key left in the registry by cancelled gets; 0 is "no object"
Objs  == 1..(NTasks + NKeys)
NoObj == 0
NoTask == 0

VARIABLES
  map,            \* HashMap<K, V> behind the RwLock: key -> value or None
  mapWriter,      \* task holding the RwLock write guard, or NoTask
  mapReaders,     \* tasks holding a RwLock read guard
  notifiers,      \* HashMap<K, Arc<Notify>> behind the Mutex: key -> object or NoObj
  notifiersLock,  \* task holding the MutexGuard, or NoTask
  calls,          \* per Notify: number of notify_waiters() calls so far
  waiters,        \* per Notify: tasks whose Notified future is enqueued
  pc,             \* per task: position in its call
  op,             \* per task: "insert", "get", "remove" or "none"
  k,              \* per task: the key argument
  v,              \* per task: the value argument of insert (None otherwise)
  notify,         \* per task: the Arc<Notify> it holds, or NoObj
  seen,           \* per task: calls of its Notify when notified() was created
  notified,       \* per task: its enqueued Notified future has been notified
  result,         \* per task: the Option<V> returned (None = 0)
  ncalls,         \* calls made so far
  maxKey,         \* the highest key a call has named so far
  maxVal,         \* the highest value an insert has brought so far
  permits,        \* bounded variant: permits available at the capacity gate
  \* history variables; those of a task are cleared when its call returns,
  \* except missed
  missed,         \* get: contains_key found the key absent
  parked,         \* get: the task suspended on its Notified future
  wrote,          \* get: an insert(k, _) wrote k since the call
  removed,        \* insert: a remove(k) ran since its own write
  overwritten,    \* insert: another insert(k, _) wrote since its own write
  everRemoved,    \* per key: a remove(k) has run
  settled,        \* per key: some insert(k, _) has completed and no remove(k) ran
                  \* since its write
  fresh,          \* get: settled[k] held at the call and no remove(k) ran since
  after,          \* insert: an insert on k of another value had completed at
                  \* the call
  first,          \* insert: no insert on k had been called before
  everInserted,   \* per key: an insert(k, _) has been called
  parkedAt,       \* insert: the gets on k that were suspended at the call and
                  \* have not returned since
  lastDone,       \* per key: the value of the insert that completed last, or None
  rmParked,       \* get: a remove(k) ran while the task was suspended
  wakeKind,       \* get: 0 not woken; 1 woken by an insert with no remove(k)
                  \* since its write; 2 woken by an insert with such a remove
  wakeVal,        \* get: the value the waking insert wrote, None once another
                  \* insert(k, _) or a remove(k) has written since that write
  rmAfterWake,    \* get: a remove(k) deleted the entry after the wake-up
  cancelled       \* per key: a get(k) was cancelled while suspended

sys   == <<map, mapWriter, mapReaders, notifiers, notifiersLock, calls, waiters>>
local == <<pc, op, k, v, notify, seen, notified, result, ncalls,
           maxKey, maxVal, permits>>
hist  == <<missed, parked, wrote, removed, overwritten, everRemoved, settled,
           fresh, after, first, everInserted, parkedAt,
           lastDone, rmParked, wakeKind, wakeVal, rmAfterWake,
           cancelled>>
vars  == <<map, mapWriter, mapReaders, notifiers, notifiersLock, calls, waiters,
           pc, op, k, v, notify, seen, notified, result, ncalls, maxKey, maxVal,
           permits,
           missed, parked, wrote, removed, overwritten, everRemoved, settled,
           fresh, after, first, everInserted, parkedAt,
           lastDone, rmParked, wakeKind, wakeVal, rmAfterWake,
           cancelled>>

\* UnboundedNapMap::new: both tables empty, both locks free; no task has called
Init ==
  /\ map = [x \in Keys |-> None]
  /\ mapWriter = NoTask
  /\ mapReaders = {}
  /\ notifiers = [x \in Keys |-> NoObj]
  /\ notifiersLock = NoTask
  /\ calls = [o \in Objs |-> 0]
  /\ waiters = [o \in Objs |-> {}]
  /\ pc = [t \in Tasks |-> "idle"]
  /\ op = [t \in Tasks |-> "none"]
  /\ k = [t \in Tasks |-> 1]
  /\ v = [t \in Tasks |-> None]
  /\ notify = [t \in Tasks |-> NoObj]
  /\ seen = [t \in Tasks |-> 0]
  /\ notified = [t \in Tasks |-> FALSE]
  /\ result = [t \in Tasks |-> None]
  /\ ncalls = 0
  /\ maxKey = 0
  /\ maxVal = 0
  /\ permits = Capacity
  /\ missed = [t \in Tasks |-> FALSE]
  /\ parked = [t \in Tasks |-> FALSE]
  /\ wrote = [t \in Tasks |-> FALSE]
  /\ removed = [t \in Tasks |-> FALSE]
  /\ overwritten = [t \in Tasks |-> FALSE]
  /\ everRemoved = [x \in Keys |-> FALSE]
  /\ settled = [x \in Keys |-> FALSE]
  /\ fresh = [t \in Tasks |-> FALSE]
  /\ after = [t \in Tasks |-> FALSE]
  /\ first = [t \in Tasks |-> FALSE]
  /\ everInserted = [x \in Keys |-> FALSE]
  /\ parkedAt = [t \in Tasks |-> {}]
  /\ lastDone = [x \in Keys |-> None]
  /\ rmParked = [t \in Tasks |-> FALSE]
  /\ wakeKind = [t \in Tasks |-> 0]
  /\ wakeVal = [t \in Tasks |-> None]
  /\ rmAfterWake = [t \in Tasks |-> FALSE]
  /\ cancelled = [x \in Keys |-> FALSE]

---------------------------------------------------------------------------
\* tokio primitives, as the source uses them

\* faulty variant: a write guard handed out while read guards are out
CanWriteIgnoringReaders == mapWriter = NoTask

\* RwLock::write().await resolves when no guard of either kind is out
CanWrite == mapWriter = NoTask /\ mapReaders = {}

\* RwLock::read().await resolves when no write guard is out
CanRead == mapWriter = NoTask

\* Mutex::lock().await resolves when no MutexGuard is out
CanLock == notifiersLock = NoTask

\* an Arc<Notify> is alive while the registry or a task holds a clone of it
Referenced(o, nfs, nfy) ==
  \/ \E x \in Keys : nfs[x] = o
  \/ \E t \in Tasks : nfy[t] = o

\* Arc::new(Notify::new()): a fresh object (the lowest unused identity)
FreshObj == CHOOSE o \in Objs :
              /\ ~Referenced(o, notifiers, notify)
              /\ \A p \in Objs : p < o => Referenced(p, notifiers, notify)

\* faulty variant: a broadcast that reaches none of the enqueued waiters
NotifyNobody(o) == {}

\* Notify::notify_waiters notifies every waiter enqueued on the object
NotifyWaitersSet(o) == waiters[o]

\* a task that has called and not yet returned
Active(t) == pc[t] \notin {"idle", "done"}

\* a get suspended on a Notified future that is not yet notified
Suspended(t) == pc[t] = "g_wait" /\ ~notified[t]

\* a get whose Notified future a broadcast has completed, before its re-read
Woken(t) ==
  \/ pc[t] = "g_poll" /\ calls[notify[t]] # seen[t]
  \/ pc[t] = "g_wait" /\ notified[t]
  \/ pc[t] \in {"g_woken", "g_reread"}

\* a task calls when it is not inside a call.  Tasks, keys and values are
\* interchangeable (K and V are opaque to the map: it only compares keys), so
\* tasks make their first calls in the order of their ids, and a call names
\* a key (brings a value) already used or the lowest unused one
MayCall(t) ==
  /\ pc[t] \in {"idle", "done"}
  /\ ncalls < MaxCalls
  /\ IF t = 1 THEN TRUE ELSE pc[t - 1] # "idle"

Max(a, b) == IF a >= b THEN a ELSE b

---------------------------------------------------------------------------
\* insert(k, v)   (unbounded.rs 43-51)

\* pub async fn insert(&self, k: K, v: V)
InsertCall(t, key, val) ==
  /\ MayCall(t)
  /\ key <= maxKey + 1
  /\ val <= maxVal + 1
  /\ pc' = [pc EXCEPT ![t] = "i_start"]
  /\ op' = [op EXCEPT ![t] = "insert"]
  /\ k' = [k EXCEPT ![t] = key]
  /\ v' = [v EXCEPT ![t] = val]
  /\ result' = [result EXCEPT ![t] = None]
  /\ ncalls' = ncalls + 1
  /\ maxKey' = Max(maxKey, key)
  /\ maxVal' = Max(maxVal, val)
  /\ missed' = [missed EXCEPT ![t] = FALSE]
  /\ after' = [after EXCEPT ![t] = lastDone[key] \notin {None, val}]
  /\ first' = [first EXCEPT ![t] = ~everInserted[key]]
  /\ everInserted' = [everInserted EXCEPT ![key] = TRUE]
  /\ parkedAt' = [parkedAt EXCEPT ![t] = {g \in Tasks : op[g] = "get" /\ k[g] = key /\ Suspended(g)}]
  /\ UNCHANGED <<sys, notify, seen, notified, permits, parked, wrote,
                 removed, overwritten, everRemoved, settled, fresh, lastDone,
                 rmParked, wakeKind, wakeVal, rmAfterWake, cancelled>>

\* self.map.write().await
InsertWriteLock(t) ==
  /\ pc[t] = "i_start"
  /\ CanWrite
  /\ mapWriter' = t
  /\ pc' = [pc EXCEPT ![t] = "i_write"]
  /\ UNCHANGED <<map, mapReaders, notifiers, notifiersLock, calls, waiters,
                 op, k, v, notify, seen, notified, result, ncalls, maxKey,
                 maxVal, permits, hist>>

\* faulty variant: insert keeps the entry that is already there
InsertWriteKeepFirst(t) == IF map[k[t]] # None THEN map[k[t]] ELSE v[t]

\* faulty variant: insert stores nothing
InsertWriteValueLost(t) == map[k[t]]

\* the value insert() leaves in the table: HashMap::insert replaces the entry
InsertWriteValue(t) == v[t]

\* .insert(k.clone(), v); the write guard drops at the end of the statement
InsertWrite(t) ==
  /\ pc[t] = "i_write"
  /\ map' = [map EXCEPT ![k[t]] = InsertWriteValue(t)]
  /\ mapWriter' = NoTask
  /\ pc' = [pc EXCEPT ![t] = "i_lock"]
  /\ wrote' = [u \in Tasks |->
       IF Active(u) /\ op[u] = "get" /\ k[u] = k[t] THEN TRUE
       ELSE wrote[u]]
  /\ removed' = [removed EXCEPT ![t] = FALSE]
  /\ overwritten' = [u \in Tasks |->
       IF u = t THEN FALSE
       ELSE IF pc[u] \in {"i_lock", "i_detach", "i_notify", "i_release"} /\ k[u] = k[t] THEN TRUE
       ELSE overwritten[u]]
  /\ wakeVal' = [u \in Tasks |->
       IF Active(u) /\ k[u] = k[t] THEN None
       ELSE wakeVal[u]]
  /\ UNCHANGED <<mapReaders, notifiers, notifiersLock, calls, waiters, op, k,
                 v, notify, seen, notified, result, ncalls, maxKey, maxVal,
                 permits, missed, parked, everRemoved, settled, fresh, after,
                 first, everInserted, parkedAt, lastDone, rmParked, wakeKind,
                 rmAfterWake, cancelled>>

\* self.notifiers.lock().await
InsertLock(t) ==
  /\ pc[t] = "i_lock"
  /\ CanLock
  /\ notifiersLock' = t
  /\ pc' = [pc EXCEPT ![t] = "i_detach"]
  /\ UNCHANGED <<map, mapWriter, mapReaders, notifiers, calls, waiters, op,
                 k, v, notify, seen, notified, result, ncalls, maxKey,
                 maxVal, permits, hist>>

\* faulty variant: insert looks the Notify up and leaves it in the registry
InsertDetachKeeps(t) ==
  /\ pc[t] = "i_detach"
  /\ pc' = [pc EXCEPT ![t] = IF notifiers[k[t]] # NoObj THEN "i_notify" ELSE "i_release"]
  /\ notify' = [notify EXCEPT ![t] = notifiers[k[t]]]
  /\ UNCHANGED <<sys, op, k, v, seen, notified, result, ncalls, maxKey,
                 maxVal, permits, hist>>

\* if let Some(notify) = <guard>.remove(&k): the MutexGuard is a temporary of
\* the if-let scrutinee and lives to the end of the if-let
InsertDetach(t) ==
  /\ pc[t] = "i_detach"
  /\ notifiers' = [notifiers EXCEPT ![k[t]] = NoObj]
  /\ pc' = [pc EXCEPT ![t] = IF notifiers[k[t]] # NoObj THEN "i_notify" ELSE "i_release"]
  /\ notify' = [notify EXCEPT ![t] = notifiers[k[t]]]
  /\ UNCHANGED <<map, mapWriter, mapReaders, notifiersLock, calls, waiters,
                 op, k, v, seen, notified, result, ncalls, maxKey, maxVal,
                 permits, hist>>

\* the futures a notify_waiters() call on object o completes: the enqueued
\* ones, and the ones created on o (at the current call count) but not yet polled
WokenBy(o) ==
  NotifyWaitersSet(o) \cup
    {u \in Tasks : pc[u] = "g_poll" /\ notify[u] = o /\ seen[u] = calls[o]}

\* notify.notify_waiters(): bump the call count, notify the enqueued waiters
InsertNotifyWaiters(t) ==
  /\ pc[t] = "i_notify"
  /\ calls' = [calls EXCEPT ![notify[t]] = @ + 1]
  /\ waiters' = [waiters EXCEPT ![notify[t]] = @ \ NotifyWaitersSet(notify[t])]
  /\ pc' = [pc EXCEPT ![t] = "i_release"]
  /\ notified' = [u \in Tasks |-> notified[u] \/ u \in NotifyWaitersSet(notify[t])]
  /\ wakeKind' = [u \in Tasks |->
       IF u \in WokenBy(notify[t]) THEN IF removed[t] THEN 2 ELSE 1
       ELSE wakeKind[u]]
  /\ wakeVal' = [u \in Tasks |->
       IF u \in WokenBy(notify[t]) THEN IF ~removed[t] /\ ~overwritten[t] THEN v[t] ELSE None
       ELSE wakeVal[u]]
  /\ UNCHANGED <<map, mapWriter, mapReaders, notifiers, notifiersLock, op, k,
                 v, notify, seen, result, ncalls, maxKey, maxVal, permits,
                 missed, parked, wrote, removed, overwritten, everRemoved,
                 settled, fresh, after, first, everInserted, parkedAt,
                 lastDone, rmParked, rmAfterWake, cancelled>>

\* end of the if-let: notify and the MutexGuard drop; insert returns
InsertRelease(t) ==
  /\ pc[t] = "i_release"
  /\ notifiersLock' = NoTask
  /\ calls' = IF notify[t] # NoObj /\ ~Referenced(notify[t], notifiers, [notify EXCEPT ![t] = NoObj])
     THEN [calls EXCEPT ![notify[t]] = 0] ELSE calls
  /\ pc' = [pc EXCEPT ![t] = "done"]
  /\ v' = [v EXCEPT ![t] = None]
  /\ notify' = [notify EXCEPT ![t] = NoObj]
  /\ parked' = [parked EXCEPT ![t] = FALSE]
  /\ wrote' = [wrote EXCEPT ![t] = FALSE]
  /\ removed' = [removed EXCEPT ![t] = FALSE]
  /\ overwritten' = [overwritten EXCEPT ![t] = FALSE]
  /\ settled' = [settled EXCEPT ![k[t]] = @ \/ ~removed[t]]
  /\ fresh' = [fresh EXCEPT ![t] = FALSE]
  /\ after' = [after EXCEPT ![t] = FALSE]
  /\ first' = [first EXCEPT ![t] = FALSE]
  /\ parkedAt' = [parkedAt EXCEPT ![t] = {}]
  /\ lastDone' = [lastDone EXCEPT ![k[t]] = v[t]]
  /\ rmParked' = [rmParked EXCEPT ![t] = FALSE]
  /\ wakeKind' = [wakeKind EXCEPT ![t] = 0]
  /\ wakeVal' = [wakeVal EXCEPT ![t] = None]
  /\ rmAfterWake' = [rmAfterWake EXCEPT ![t] = FALSE]
  /\ UNCHANGED <<map, mapWriter, mapReaders, notifiers, waiters, op, k, seen,
                 notified, result, ncalls, maxKey, maxVal, permits, missed,
                 everRemoved, everInserted, cancelled>>

---------------------------------------------------------------------------
\* get(k)   (unbounded.rs 53-72)

\* pub async fn get(&self, k: K) -> Option<V>
GetCall(t, key) ==
  /\ MayCall(t)
  /\ key <= maxKey + 1
  /\ pc' = [pc EXCEPT ![t] = "g_start"]
  /\ op' = [op EXCEPT ![t] = "get"]
  /\ k' = [k EXCEPT ![t] = key]
  /\ v' = [v EXCEPT ![t] = None]
  /\ result' = [result EXCEPT ![t] = None]
  /\ ncalls' = ncalls + 1
  /\ maxKey' = Max(maxKey, key)
  /\ missed' = [missed EXCEPT ![t] = FALSE]
  /\ fresh' = [fresh EXCEPT ![t] = settled[key]]
  /\ UNCHANGED <<sys, notify, seen, notified, maxVal, permits, parked, wrote,
                 removed, overwritten, everRemoved, settled, after, first,
                 everInserted, parkedAt, lastDone, rmParked, wakeKind,
                 wakeVal, rmAfterWake, cancelled>>

\* if self.map.read().await ...
GetReadLock(t) ==
  /\ pc[t] = "g_start"
  /\ CanRead
  /\ mapReaders' = mapReaders \cup {t}
  /\ pc' = [pc EXCEPT ![t] = "g_check"]
  /\ UNCHANGED <<map, mapWriter, notifiers, notifiersLock, calls, waiters,
                 op, k, v, notify, seen, notified, result, ncalls, maxKey,
                 maxVal, permits, hist>>

\* faulty variant: get takes the slow path whatever the table holds
GetContainsKeyMiss(t) ==
  /\ pc[t] = "g_check"
  /\ mapReaders' = mapReaders \ {t}
  /\ pc' = [pc EXCEPT ![t] = "g_lock"]
  /\ missed' = [missed EXCEPT ![t] = map[k[t]] = None]
  /\ UNCHANGED <<map, mapWriter, notifiers, notifiersLock, calls, waiters,
                 op, k, v, notify, seen, notified, result, ncalls, maxKey,
                 maxVal, permits, parked, wrote, removed, overwritten,
                 everRemoved, settled, fresh, after, first, everInserted,
                 parkedAt, lastDone, rmParked, wakeKind, wakeVal,
                 rmAfterWake, cancelled>>

\* ... .contains_key(&k); the read guard drops at the end of the condition
GetContainsKey(t) ==
  /\ pc[t] = "g_check"
  /\ mapReaders' = mapReaders \ {t}
  /\ pc' = [pc EXCEPT ![t] = IF map[k[t]] # None THEN "g_fast" ELSE "g_lock"]
  /\ missed' = [missed EXCEPT ![t] = map[k[t]] = None]
  /\ UNCHANGED <<map, mapWriter, notifiers, notifiersLock, calls, waiters,
                 op, k, v, notify, seen, notified, result, ncalls, maxKey,
                 maxVal, permits, parked, wrote, removed, overwritten,
                 everRemoved, settled, fresh, after, first, everInserted,
                 parkedAt, lastDone, rmParked, wakeKind, wakeVal,
                 rmAfterWake, cancelled>>

\* return self.map.read().await ...   (a second read guard)
GetFastReadLock(t) ==
  /\ pc[t] = "g_fast"
  /\ CanRead
  /\ mapReaders' = mapReaders \cup {t}
  /\ pc' = [pc EXCEPT ![t] = "g_fastread"]
  /\ UNCHANGED <<map, mapWriter, notifiers, notifiersLock, calls, waiters,
                 op, k, v, notify, seen, notified, result, ncalls, maxKey,
                 maxVal, permits, hist>>

\* ... .get(&k).cloned(); get returns
GetFastRead(t) ==
  /\ pc[t] = "g_fastread"
  /\ mapReaders' = mapReaders \ {t}
  /\ pc' = [pc EXCEPT ![t] = "done"]
  /\ result' = [result EXCEPT ![t] = map[k[t]]]
  /\ parked' = [parked EXCEPT ![t] = FALSE]
  /\ wrote' = [wrote EXCEPT ![t] = FALSE]
  /\ removed' = [removed EXCEPT ![t] = FALSE]
  /\ overwritten' = [overwritten EXCEPT ![t] = FALSE]
  /\ fresh' = [fresh EXCEPT ![t] = FALSE]
  /\ after' = [after EXCEPT ![t] = FALSE]
  /\ first' = [first EXCEPT ![t] = FALSE]
  /\ parkedAt' = [parkedAt EXCEPT ![t] = {}]
  /\ rmParked' = [rmParked EXCEPT ![t] = FALSE]
  /\ wakeKind' = [wakeKind EXCEPT ![t] = 0]
  /\ wakeVal' = [wakeVal EXCEPT ![t] = None]
  /\ rmAfterWake' = [rmAfterWake EXCEPT ![t] = FALSE]
  /\ UNCHANGED <<map, mapWriter, notifiers, notifiersLock, calls, waiters,
                 op, k, v, notify, seen, notified, ncalls, maxKey, maxVal,
                 permits, missed, everRemoved, settled, everInserted,
                 lastDone, cancelled>>

\* let mut notifiers = self.notifiers.lock().await;
GetLock(t) ==
  /\ pc[t] = "g_lock"
  /\ CanLock
  /\ notifiersLock' = t
  /\ pc' = [pc EXCEPT ![t] = "g_entry"]
  /\ UNCHANGED <<map, mapWriter, mapReaders, notifiers, calls, waiters, op,
                 k, v, notify, seen, notified, result, ncalls, maxKey,
                 maxVal, permits, hist>>

\* the object get() ends up holding: the registered one, or a fresh one
GetEntryObj(t) == IF notifiers[k[t]] # NoObj THEN notifiers[k[t]] ELSE FreshObj

\* notifiers.entry(k.clone()).or_insert(Arc::new(Notify::new())).clone()
GetEntry(t) ==
  /\ pc[t] = "g_entry"
  /\ notifiers' = [notifiers EXCEPT ![k[t]] = GetEntryObj(t)]
  /\ pc' = [pc EXCEPT ![t] = "g_drop"]
  /\ notify' = [notify EXCEPT ![t] = GetEntryObj(t)]
  /\ UNCHANGED <<map, mapWriter, mapReaders, notifiersLock, calls, waiters,
                 op, k, v, seen, notified, result, ncalls, maxKey, maxVal,
                 permits, hist>>

\* faulty variant: get keeps the MutexGuard while it awaits
GetDropKeeps(t) ==
  /\ pc[t] = "g_drop"
  /\ pc' = [pc EXCEPT ![t] = "g_sub"]
  /\ UNCHANGED <<sys, op, k, v, notify, seen, notified, result, ncalls,
                 maxKey, maxVal, permits, hist>>

\* drop(notifiers)
GetDrop(t) ==
  /\ pc[t] = "g_drop"
  /\ notifiersLock' = NoTask
  /\ pc' = [pc EXCEPT ![t] = "g_sub"]
  /\ UNCHANGED <<map, mapWriter, mapReaders, notifiers, calls, waiters, op,
                 k, v, notify, seen, notified, result, ncalls, maxKey,
                 maxVal, permits, hist>>

\* notify.notified(): the future records the notify_waiters call count
GetNotified(t) ==
  /\ pc[t] = "g_sub"
  /\ pc' = [pc EXCEPT ![t] = "g_poll"]
  /\ seen' = [seen EXCEPT ![t] = calls[notify[t]]]
  /\ UNCHANGED <<sys, op, k, v, notify, notified, result, ncalls, maxKey,
                 maxVal, permits, hist>>

\* .await, first poll: ready if notify_waiters ran since the future was
\* created, else the future enqueues itself and the task suspends
GetPoll(t) ==
  /\ pc[t] = "g_poll"
  /\ waiters' = IF calls[notify[t]] # seen[t] THEN waiters
     ELSE [waiters EXCEPT ![notify[t]] = @ \cup {t}]
  /\ pc' = [pc EXCEPT ![t] = IF calls[notify[t]] # seen[t] THEN "g_woken" ELSE "g_wait"]
  /\ parked' = [parked EXCEPT ![t] = calls[notify[t]] = seen[t]]
  /\ UNCHANGED <<map, mapWriter, mapReaders, notifiers, notifiersLock, calls,
                 op, k, v, notify, seen, notified, result, ncalls, maxKey,
                 maxVal, permits, missed, wrote, removed, overwritten,
                 everRemoved, settled, fresh, after, first, everInserted,
                 parkedAt, lastDone, rmParked, wakeKind, wakeVal,
                 rmAfterWake, cancelled>>

\* faulty variant: the await completes without a notification
GetWakeSpurious(t) ==
  /\ pc[t] = "g_wait"
  /\ pc' = [pc EXCEPT ![t] = "g_woken"]
  /\ UNCHANGED <<sys, op, k, v, notify, seen, notified, result, ncalls,
                 maxKey, maxVal, permits, hist>>

\* .await, resumed: notify_waiters has notified the enqueued future
GetWake(t) ==
  /\ pc[t] = "g_wait"
  /\ notified[t]
  /\ pc' = [pc EXCEPT ![t] = "g_woken"]
  /\ UNCHANGED <<sys, op, k, v, notify, seen, notified, result, ncalls,
                 maxKey, maxVal, permits, hist>>

\* self.map.read().await ...
GetRereadLock(t) ==
  /\ pc[t] = "g_woken"
  /\ CanRead
  /\ mapReaders' = mapReaders \cup {t}
  /\ pc' = [pc EXCEPT ![t] = "g_reread"]
  /\ UNCHANGED <<map, mapWriter, notifiers, notifiersLock, calls, waiters,
                 op, k, v, notify, seen, notified, result, ncalls, maxKey,
                 maxVal, permits, hist>>

\* ... .get(&k).cloned(); get returns and its Arc<Notify> drops
GetReread(t) ==
  /\ pc[t] = "g_reread"
  /\ mapReaders' = mapReaders \ {t}
  /\ calls' = IF ~Referenced(notify[t], notifiers, [notify EXCEPT ![t] = NoObj])
     THEN [calls EXCEPT ![notify[t]] = 0] ELSE calls
  /\ pc' = [pc EXCEPT ![t] = "done"]
  /\ notify' = [notify EXCEPT ![t] = NoObj]
  /\ seen' = [seen EXCEPT ![t] = 0]
  /\ notified' = [notified EXCEPT ![t] = FALSE]
  /\ result' = [result EXCEPT ![t] = map[k[t]]]
  /\ parked' = [parked EXCEPT ![t] = FALSE]
  /\ wrote' = [wrote EXCEPT ![t] = FALSE]
  /\ removed' = [removed EXCEPT ![t] = FALSE]
  /\ overwritten' = [overwritten EXCEPT ![t] = FALSE]
  /\ fresh' = [fresh EXCEPT ![t] = FALSE]
  /\ after' = [after EXCEPT ![t] = FALSE]
  /\ first' = [first EXCEPT ![t] = FALSE]
  /\ parkedAt' = [u \in Tasks |-> parkedAt[u] \ {t}]
  /\ rmParked' = [rmParked EXCEPT ![t] = FALSE]
  /\ wakeKind' = [wakeKind EXCEPT ![t] = 0]
  /\ wakeVal' = [wakeVal EXCEPT ![t] = None]
  /\ rmAfterWake' = [rmAfterWake EXCEPT ![t] = FALSE]
  /\ UNCHANGED <<map, mapWriter, notifiers, notifiersLock, waiters, op, k, v,
                 ncalls, maxKey, maxVal, permits, missed, everRemoved,
                 settled, everInserted, lastDone, cancelled>>

\* faulty variant: a cancelled get takes the Notify of its key out of the registry
GetCancelPurges(t) ==
  /\ pc[t] = "g_wait"
  /\ notifiers' = [notifiers EXCEPT ![k[t]] = NoObj]
  /\ waiters' = [waiters EXCEPT ![notify[t]] = @ \ {t}]
  /\ pc' = [pc EXCEPT ![t] = "done"]
  /\ op' = [op EXCEPT ![t] = "none"]
  /\ notify' = [notify EXCEPT ![t] = NoObj]
  /\ seen' = [seen EXCEPT ![t] = 0]
  /\ notified' = [notified EXCEPT ![t] = FALSE]
  /\ missed' = [missed EXCEPT ![t] = FALSE]
  /\ parked' = [parked EXCEPT ![t] = FALSE]
  /\ wrote' = [wrote EXCEPT ![t] = FALSE]
  /\ removed' = [removed EXCEPT ![t] = FALSE]
  /\ overwritten' = [overwritten EXCEPT ![t] = FALSE]
  /\ fresh' = [fresh EXCEPT ![t] = FALSE]
  /\ after' = [after EXCEPT ![t] = FALSE]
  /\ first' = [first EXCEPT ![t] = FALSE]
  /\ parkedAt' = [u \in Tasks |-> IF u = t THEN {} ELSE parkedAt[u] \ {t}]
  /\ rmParked' = [rmParked EXCEPT ![t] = FALSE]
  /\ wakeKind' = [wakeKind EXCEPT ![t] = 0]
  /\ wakeVal' = [wakeVal EXCEPT ![t] = None]
  /\ rmAfterWake' = [rmAfterWake EXCEPT ![t] = FALSE]
  /\ cancelled' = [cancelled EXCEPT ![k[t]] = TRUE]
  /\ UNCHANGED <<map, mapWriter, mapReaders, notifiersLock, calls, k, v,
                 result, ncalls, maxKey, maxVal, permits, everRemoved,
                 settled, everInserted, lastDone>>

\* the task is dropped while suspended in notify.notified().await: the Notified
\* future leaves the waiter list and the task's Arc<Notify> drops; the registry
\* keeps its clone
GetCancel(t) ==
  /\ pc[t] = "g_wait"
  /\ calls' = IF ~Referenced(notify[t], notifiers, [notify EXCEPT ![t] = NoObj])
     THEN [calls EXCEPT ![notify[t]] = 0] ELSE calls
  /\ waiters' = [waiters EXCEPT ![notify[t]] = @ \ {t}]
  /\ pc' = [pc EXCEPT ![t] = "done"]
  /\ op' = [op EXCEPT ![t] = "none"]
  /\ notify' = [notify EXCEPT ![t] = NoObj]
  /\ seen' = [seen EXCEPT ![t] = 0]
  /\ notified' = [notified EXCEPT ![t] = FALSE]
  /\ missed' = [missed EXCEPT ![t] = FALSE]
  /\ parked' = [parked EXCEPT ![t] = FALSE]
  /\ wrote' = [wrote EXCEPT ![t] = FALSE]
  /\ removed' = [removed EXCEPT ![t] = FALSE]
  /\ overwritten' = [overwritten EXCEPT ![t] = FALSE]
  /\ fresh' = [fresh EXCEPT ![t] = FALSE]
  /\ after' = [after EXCEPT ![t] = FALSE]
  /\ first' = [first EXCEPT ![t] = FALSE]
  /\ parkedAt' = [u \in Tasks |-> IF u = t THEN {} ELSE parkedAt[u] \ {t}]
  /\ rmParked' = [rmParked EXCEPT ![t] = FALSE]
  /\ wakeKind' = [wakeKind EXCEPT ![t] = 0]
  /\ wakeVal' = [wakeVal EXCEPT ![t] = None]
  /\ rmAfterWake' = [rmAfterWake EXCEPT ![t] = FALSE]
  /\ cancelled' = [cancelled EXCEPT ![k[t]] = TRUE]
  /\ UNCHANGED <<map, mapWriter, mapReaders, notifiers, notifiersLock, k, v,
                 result, ncalls, maxKey, maxVal, permits, everRemoved,
                 settled, everInserted, lastDone>>

---------------------------------------------------------------------------
\* remove(k)   (unbounded.rs 74-76)

\* pub async fn remove(&self, k: K) -> Option<V>
RemoveCall(t, key) ==
  /\ MayCall(t)
  /\ key <= maxKey + 1
  /\ pc' = [pc EXCEPT ![t] = "r_start"]
  /\ op' = [op EXCEPT ![t] = "remove"]
  /\ k' = [k EXCEPT ![t] = key]
  /\ v' = [v EXCEPT ![t] = None]
  /\ result' = [result EXCEPT ![t] = None]
  /\ ncalls' = ncalls + 1
  /\ maxKey' = Max(maxKey, key)
  /\ missed' = [missed EXCEPT ![t] = FALSE]
  /\ UNCHANGED <<sys, notify, seen, notified, maxVal, permits, parked, wrote,
                 removed, overwritten, everRemoved, settled, fresh, after,
                 first, everInserted, parkedAt, lastDone, rmParked, wakeKind,
                 wakeVal, rmAfterWake, cancelled>>

\* self.map.write().await
RemoveWriteLock(t) ==
  /\ pc[t] = "r_start"
  /\ CanWrite
  /\ mapWriter' = t
  /\ pc' = [pc EXCEPT ![t] = "r_write"]
  /\ UNCHANGED <<map, mapReaders, notifiers, notifiersLock, calls, waiters,
                 op, k, v, notify, seen, notified, result, ncalls, maxKey,
                 maxVal, permits, hist>>

\* faulty variant: remove returns the entry and leaves it in the table
RemoveWriteKeeps(t) ==
  /\ pc[t] = "r_write"
  /\ mapWriter' = NoTask
  /\ pc' = [pc EXCEPT ![t] = "done"]
  /\ result' = [result EXCEPT ![t] = map[k[t]]]
  /\ removed' = [u \in Tasks |->
       IF pc[u] \in {"i_lock", "i_detach", "i_notify", "i_release"} /\ k[u] = k[t] THEN TRUE
       ELSE removed[u]]
  /\ everRemoved' = [everRemoved EXCEPT ![k[t]] = TRUE]
  /\ settled' = [settled EXCEPT ![k[t]] = FALSE]
  /\ fresh' = [u \in Tasks |->
       IF k[u] = k[t] THEN FALSE
       ELSE fresh[u]]
  /\ rmParked' = [u \in Tasks |->
       IF k[u] = k[t] /\ Suspended(u) THEN TRUE
       ELSE rmParked[u]]
  /\ wakeVal' = [u \in Tasks |->
       IF Active(u) /\ k[u] = k[t] THEN None
       ELSE wakeVal[u]]
  /\ rmAfterWake' = [u \in Tasks |->
       IF op[u] = "get" /\ k[u] = k[t] /\ Woken(u) /\ map[k[t]] # None THEN TRUE
       ELSE rmAfterWake[u]]
  /\ UNCHANGED <<map, mapReaders, notifiers, notifiersLock, calls, waiters,
                 op, k, v, notify, seen, notified, ncalls, maxKey, maxVal,
                 permits, missed, parked, wrote, overwritten, after, first,
                 everInserted, parkedAt, lastDone, wakeKind, cancelled>>

\* faulty variant: remove wakes the waiters of the key
RemoveWriteWakes(t) ==
  /\ pc[t] = "r_write"
  /\ map' = [map EXCEPT ![k[t]] = None]
  /\ mapWriter' = NoTask
  /\ pc' = [pc EXCEPT ![t] = "done"]
  /\ notified' = [u \in Tasks |-> notified[u] \/ (k[u] = k[t] /\ Suspended(u))]
  /\ result' = [result EXCEPT ![t] = map[k[t]]]
  /\ removed' = [u \in Tasks |->
       IF pc[u] \in {"i_lock", "i_detach", "i_notify", "i_release"} /\ k[u] = k[t] THEN TRUE
       ELSE removed[u]]
  /\ everRemoved' = [everRemoved EXCEPT ![k[t]] = TRUE]
  /\ settled' = [settled EXCEPT ![k[t]] = FALSE]
  /\ fresh' = [u \in Tasks |->
       IF k[u] = k[t] THEN FALSE
       ELSE fresh[u]]
  /\ rmParked' = [u \in Tasks |->
       IF k[u] = k[t] /\ Suspended(u) THEN TRUE
       ELSE rmParked[u]]
  /\ wakeVal' = [u \in Tasks |->
       IF Active(u) /\ k[u] = k[t] THEN None
       ELSE wakeVal[u]]
  /\ rmAfterWake' = [u \in Tasks |->
       IF op[u] = "get" /\ k[u] = k[t] /\ Woken(u) /\ map[k[t]] # None THEN TRUE
       ELSE rmAfterWake[u]]
  /\ UNCHANGED <<mapReaders, notifiers, notifiersLock, calls, waiters, op, k,
                 v, notify, seen, ncalls, maxKey, maxVal, permits, missed,
                 parked, wrote, overwritten, after, first, everInserted,
                 parkedAt, lastDone, wakeKind, cancelled>>

\* .remove(&k); the write guard drops and remove returns
RemoveWrite(t) ==
  /\ pc[t] = "r_write"
  /\ map' = [map EXCEPT ![k[t]] = None]
  /\ mapWriter' = NoTask
  /\ pc' = [pc EXCEPT ![t] = "done"]
  /\ result' = [result EXCEPT ![t] = map[k[t]]]
  /\ removed' = [u \in Tasks |->
       IF pc[u] \in {"i_lock", "i_detach", "i_notify", "i_release"} /\ k[u] = k[t] THEN TRUE
       ELSE removed[u]]
  /\ everRemoved' = [everRemoved EXCEPT ![k[t]] = TRUE]
  /\ settled' = [settled EXCEPT ![k[t]] = FALSE]
  /\ fresh' = [u \in Tasks |->
       IF k[u] = k[t] THEN FALSE
       ELSE fresh[u]]
  /\ rmParked' = [u \in Tasks |->
       IF k[u] = k[t] /\ Suspended(u) THEN TRUE
       ELSE rmParked[u]]
  /\ wakeVal' = [u \in Tasks |->
       IF Active(u) /\ k[u] = k[t] THEN None
       ELSE wakeVal[u]]
  /\ rmAfterWake' = [u \in Tasks |->
       IF op[u] = "get" /\ k[u] = k[t] /\ Woken(u) /\ map[k[t]] # None THEN TRUE
       ELSE rmAfterWake[u]]
  /\ UNCHANGED <<mapReaders, notifiers, notifiersLock, calls, waiters, op, k,
                 v, notify, seen, notified, ncalls, maxKey, maxVal, permits,
                 missed, parked, wrote, overwritten, after, first,
                 everInserted, parkedAt, lastDone, wakeKind, cancelled>>

---------------------------------------------------------------------------
\* bounded variant: the capacity gate around insert and remove (spec 4.4)

\* insert of the bounded variant: the call, before the gate
BoundedInsertCall(t, key, val) ==
  /\ MayCall(t)
  /\ key <= maxKey + 1
  /\ val <= maxVal + 1
  /\ pc' = [pc EXCEPT ![t] = "b_acquire"]
  /\ op' = [op EXCEPT ![t] = "insert"]
  /\ k' = [k EXCEPT ![t] = key]
  /\ v' = [v EXCEPT ![t] = val]
  /\ result' = [result EXCEPT ![t] = None]
  /\ ncalls' = ncalls + 1
  /\ maxKey' = Max(maxKey, key)
  /\ maxVal' = Max(maxVal, val)
  /\ missed' = [missed EXCEPT ![t] = FALSE]
  /\ after' = [after EXCEPT ![t] = lastDone[key] \notin {None, val}]
  /\ first' = [first EXCEPT ![t] = ~everInserted[key]]
  /\ everInserted' = [everInserted EXCEPT ![key] = TRUE]
  /\ parkedAt' = [parkedAt EXCEPT ![t] = {g \in Tasks : op[g] = "get" /\ k[g] = key /\ Suspended(g)}]
  /\ UNCHANGED <<sys, notify, seen, notified, permits, parked, wrote,
                 removed, overwritten, everRemoved, settled, fresh, lastDone,
                 rmParked, wakeKind, wakeVal, rmAfterWake, cancelled>>

\* insert acquires one permit before its table write; it suspends while none
\* is available
BoundedAcquire(t) ==
  /\ pc[t] = "b_acquire"
  /\ permits > 0
  /\ pc' = [pc EXCEPT ![t] = "i_start"]
  /\ permits' = permits - 1
  /\ UNCHANGED <<sys, op, k, v, notify, seen, notified, result, ncalls,
                 maxKey, maxVal, hist>>

\* insert releases its permit after the broadcast, and returns
BoundedInsertRelease(t) ==
  /\ pc[t] = "i_release"
  /\ notifiersLock' = NoTask
  /\ calls' = IF notify[t] # NoObj /\ ~Referenced(notify[t], notifiers, [notify EXCEPT ![t] = NoObj])
     THEN [calls EXCEPT ![notify[t]] = 0] ELSE calls
  /\ pc' = [pc EXCEPT ![t] = "done"]
  /\ v' = [v EXCEPT ![t] = None]
  /\ notify' = [notify EXCEPT ![t] = NoObj]
  /\ permits' = permits + 1
  /\ parked' = [parked EXCEPT ![t] = FALSE]
  /\ wrote' = [wrote EXCEPT ![t] = FALSE]
  /\ removed' = [removed EXCEPT ![t] = FALSE]
  /\ overwritten' = [overwritten EXCEPT ![t] = FALSE]
  /\ settled' = [settled EXCEPT ![k[t]] = @ \/ ~removed[t]]
  /\ fresh' = [fresh EXCEPT ![t] = FALSE]
  /\ after' = [after EXCEPT ![t] = FALSE]
  /\ first' = [first EXCEPT ![t] = FALSE]
  /\ parkedAt' = [parkedAt EXCEPT ![t] = {}]
  /\ lastDone' = [lastDone EXCEPT ![k[t]] = v[t]]
  /\ rmParked' = [rmParked EXCEPT ![t] = FALSE]
  /\ wakeKind' = [wakeKind EXCEPT ![t] = 0]
  /\ wakeVal' = [wakeVal EXCEPT ![t] = None]
  /\ rmAfterWake' = [rmAfterWake EXCEPT ![t] = FALSE]
  /\ UNCHANGED <<map, mapWriter, mapReaders, notifiers, waiters, op, k, seen,
                 notified, result, ncalls, maxKey, maxVal, missed,
                 everRemoved, everInserted, cancelled>>

\* remove releases one permit if and only if it deleted an entry
BoundedRemoveWrite(t) ==
  /\ pc[t] = "r_write"
  /\ map' = [map EXCEPT ![k[t]] = None]
  /\ mapWriter' = NoTask
  /\ pc' = [pc EXCEPT ![t] = "done"]
  /\ result' = [result EXCEPT ![t] = map[k[t]]]
  /\ permits' = IF map[k[t]] # None THEN permits + 1 ELSE permits
  /\ removed' = [u \in Tasks |->
       IF pc[u] \in {"i_lock", "i_detach", "i_notify", "i_release"} /\ k[u] = k[t] THEN TRUE
       ELSE removed[u]]
  /\ everRemoved' = [everRemoved EXCEPT ![k[t]] = TRUE]
  /\ settled' = [settled EXCEPT ![k[t]] = FALSE]
  /\ fresh' = [u \in Tasks |->
       IF k[u] = k[t] THEN FALSE
       ELSE fresh[u]]
  /\ rmParked' = [u \in Tasks |->
       IF k[u] = k[t] /\ Suspended(u) THEN TRUE
       ELSE rmParked[u]]
  /\ wakeVal' = [u \in Tasks |->
       IF Active(u) /\ k[u] = k[t] THEN None
       ELSE wakeVal[u]]
  /\ rmAfterWake' = [u \in Tasks |->
       IF op[u] = "get" /\ k[u] = k[t] /\ Woken(u) /\ map[k[t]] # None THEN TRUE
       ELSE rmAfterWake[u]]
  /\ UNCHANGED <<mapReaders, notifiers, notifiersLock, calls, waiters, op, k,
                 v, notify, seen, notified, ncalls, maxKey, maxVal, missed,
                 parked, wrote, overwritten, after, first, everInserted,
                 parkedAt, lastDone, wakeKind, cancelled>>

---------------------------------------------------------------------------
InsertStep(t) ==
  \/ InsertWriteLock(t)
  \/ InsertWrite(t)
  \/ InsertLock(t)
  \/ InsertDetach(t)
  \/ InsertNotifyWaiters(t)
  \/ InsertRelease(t)

GetStep(t) ==
  \/ GetReadLock(t)
  \/ GetContainsKey(t)
  \/ GetFastReadLock(t)
  \/ GetFastRead(t)
  \/ GetLock(t)
  \/ GetEntry(t)
  \/ GetDrop(t)
  \/ GetNotified(t)
  \/ GetPoll(t)
  \/ GetWake(t)
  \/ GetRereadLock(t)
  \/ GetReread(t)

RemoveStep(t) ==
  \/ RemoveWriteLock(t)
  \/ RemoveWrite(t)

\* a step of task t inside the call it has made
Step(t) == InsertStep(t) \/ GetStep(t) \/ RemoveStep(t)

Next ==
  \E t \in Tasks :
    \/ \E key \in Keys, val \in Vals : InsertCall(t, key, val)
    \/ \E key \in Keys : GetCall(t, key)
    \/ \E key \in Keys : RemoveCall(t, key)
    \/ InsertStep(t)
    \/ GetStep(t)
    \/ RemoveStep(t)

Spec == Init /\ [][Next]_vars

\* the runtime keeps polling while some task is ready to run
FairSpec == Spec /\ WF_vars(\E t \in Tasks : Step(t))

\* the runtime may also drop a task that is suspended in get
NextCancel ==
  \/ Next
  \/ \E t \in Tasks : GetCancel(t)

CancelSpec == Init /\ [][NextCancel]_vars

\* bounded variant: the same rendezvous algorithm behind the capacity gate
BoundedNext ==
  \E t \in Tasks :
    \/ \E key \in Keys, val \in Vals : BoundedInsertCall(t, key, val)
    \/ \E key \in Keys : GetCall(t, key)
    \/ \E key \in Keys : RemoveCall(t, key)
    \/ BoundedAcquire(t)
    \/ InsertWriteLock(t)
    \/ InsertWrite(t)
    \/ InsertLock(t)
    \/ InsertDetach(t)
    \/ InsertNotifyWaiters(t)
    \/ BoundedInsertRelease(t)
    \/ GetStep(t)
    \/ RemoveWriteLock(t)
    \/ BoundedRemoveWrite(t)

BoundedSpec == Init /\ [][BoundedNext]_vars
---------------------------------------------------------------------------
\* Properties

\* positions of get() after contains_key found the key absent
SlowPcs == {"g_lock", "g_entry", "g_drop", "g_sub", "g_poll", "g_wait",
            "g_woken", "g_reread"}

\* get() holds the read guard of its final read: what it returns is decided
Returning(t) == pc[t] \in {"g_fastread", "g_reread"}

InsertActive(i) == op[i] = "insert" /\ Active(i)

HoldsMap(t) == mapWriter = t \/ t \in mapReaders

\* C1: no lost wake-up: a get(k) past a miss of the fast path, while an
\* insert(k, _) has not completed, eventually returns, unless a remove(k) runs
C1_NoLostWakeup ==
  \A t \in Tasks : \A i \in Tasks :
    (pc[t] \in SlowPcs /\ InsertActive(i) /\ k[i] = k[t])
      ~> (pc[t] = "done" \/ everRemoved[k[t]])

\* an insert broadcasts on the Notify it detached: every get suspended on
\* that Notify is notified
BroadcastWakesAll ==
  \A i \in Tasks :
    (pc[i] = "i_notify" /\ pc'[i] = "i_release") =>
      \A t \in Tasks : (Suspended(t) /\ notify[t] = notify[i]) => notified'[t]

C3_NoReturnBeforeWrite ==
  \A t \in Tasks : pc[t] = "g_reread" => wrote[t]

\* C4: get returns None only when it was suspended, was woken, and the entry
\* was removed between the wake-up and the re-read; the fast path returns Some
C4_NoneOnlyAfterWake ==
  [][\A t \in Tasks :
       (Returning(t) /\ pc'[t] = "done" /\ result'[t] = None) =>
         (pc[t] = "g_reread" /\ parked[t] /\ rmAfterWake[t])]_vars

\* a step of remove() leaves the registry, the Notify objects and the
\* suspended gets as they are
RemoveFrame ==
  \A r \in Tasks :
    (pc[r] \in {"r_start", "r_write"} /\ pc'[r] # pc[r]) =>
      /\ notifiers' = notifiers
      /\ notifiersLock' = notifiersLock
      /\ calls' = calls
      /\ waiters' = waiters
      /\ \A t \in Tasks : Suspended(t) => (pc'[t] = "g_wait" /\ ~notified'[t])

\* C5: remove(k) resumes no get and leaves the registry unchanged; a get
\* suspended on k across a remove(k) is no longer suspended when the next
\* insert(k, v), the first insert on k, completes, and it returns v (when
\* nothing else wrote k since v)
C5_RemoveNonSignalling ==
  /\ [][RemoveFrame]_vars
  /\ [](\A i \in Tasks :
          (pc[i] = "i_release" /\ first[i]) =>
            \A t \in parkedAt[i] : rmParked[t] => (~Suspended(t) /\ wakeKind[t] # 0))
  /\ [](\A t \in Tasks :
          (pc[t] = "g_reread" /\ rmParked[t] /\ wakeVal[t] # None) =>
            (map[k[t]] = wakeVal[t] /\ wakeVal[t] \in Vals))

\* a get that was suspended across a remove is returning the value of the
\* insert that woke it
C5_Witness ==
  \E t \in Tasks : pc[t] = "g_reread" /\ rmParked[t] /\ wakeVal[t] # None

C7_ReturnsTableContent ==
  [][\A t \in Tasks :
       /\ t \in mapReaders => map'[k[t]] = map[k[t]]
       /\ (Returning(t) /\ pc'[t] = "done") => result'[t] = map[k[t]]]_vars

\* a get holds a read guard while a writer of the same key waits for the lock
C7_Witness ==
  \E t \in Tasks : \E u \in Tasks :
    /\ pc[t] = "g_reread" /\ pc[u] \in {"i_start", "r_start"} /\ k[u] = k[t]

\* C8: with no remove(k), a get(k) that was suspended returns a value; a
\* get(k) suspended when the first insert on k is called is no longer suspended
\* when that insert completes; and when an insert(k, v) completes with no
\* write of k since its own, the table holds v
C8_LastInsertWins ==
  /\ \A t \in Tasks :
       (pc[t] = "g_reread" /\ parked[t] /\ ~everRemoved[k[t]]) => map[k[t]] # None
  /\ \A j \in Tasks :
       pc[j] = "i_release" =>
         /\ first[j] => \A t \in parkedAt[j] : ~Suspended(t)
         /\ (~removed[j] /\ ~overwritten[j]) => map[k[j]] = v[j]

\* a second insert of another value completes after a get that had been
\* suspended on the key returned a value
C8_Witness ==
  \E j \in Tasks : \E t \in Tasks :
    /\ pc[j] = "i_release" /\ after[j] /\ ~removed[j] /\ ~overwritten[j]
    /\ op[t] = "get" /\ pc[t] = "done" /\ missed[t] /\ k[t] = k[j]
    /\ result[t] # None

\* C9: no task holds the table lock and the registry lock together; a task
\* awaiting its Notified future holds neither; every lock holder can take its
\* next step, so no task waits for a lock in a cycle
C9_LockDiscipline ==
  \A t \in Tasks :
    /\ ~(HoldsMap(t) /\ notifiersLock = t)
    /\ pc[t] = "g_wait" => (~HoldsMap(t) /\ notifiersLock # t)
    /\ (HoldsMap(t) \/ notifiersLock = t) => ENABLED Step(t)

\* a task waits for the registry lock that another task holds, while a get
\* is suspended
C9_Witness ==
  \E t \in Tasks : \E u \in Tasks :
    /\ notifiersLock = t /\ pc[u] \in {"g_lock", "i_lock"}

\* C10: under fair scheduling every insert that has started completes, whatever
\* gets stay suspended: from some point on no insert is in progress
C10_InsertCompletes ==
  <>[](\A i \in Tasks : ~InsertActive(i))

\* an insert has completed while a get is suspended
C10_Witness ==
  \E i \in Tasks : \E t \in Tasks :
    /\ op[i] = "insert" /\ pc[i] = "done" /\ Suspended(t)


\* C11: when an insert(k, _) completes the registry holds no Notify for k, and
\* every get that obtained the detached Notify from the registry was woken by
\* the insert's broadcast, once: no get stays suspended on a Notify that has
\* been broadcast, and no Notify is broadcast twice
C11_DetachedAllWoken ==
  /\ \A i \in Tasks : pc[i] = "i_release" => notifiers[k[i]] = NoObj
  /\ \A t \in Tasks : Suspended(t) => calls[notify[t]] = 0
  /\ \A o \in Objs : calls[o] <= 1

\* C13: no late subscriber: whenever a get creates its Notified future, the
\* Notify it is created on has not been broadcast
C13_NoLateSubscriber ==
  [][\A t \in Tasks :
       (pc[t] = "g_sub" /\ pc'[t] = "g_poll") => calls[notify[t]] = 0]_vars

\* C14: with no remove, under fair scheduling, every task terminates when
\* every key a get asks for is inserted by some insert: from some point on
\* the only calls in progress are gets of keys that no insert was called for
C14_AllTerminate ==
  <>[](\/ \E x \in Keys : everRemoved[x]
       \/ \A t \in Tasks :
            Active(t) => (op[t] = "get" /\ ~everInserted[k[t]]))

\* C12 (as stated): when the registry holds an entry for k, some get(k) in
\* progress holds that Notify and the table holds no value for k
C12_EntryOnlyWhilePending ==
  \A x \in Keys :
    notifiers[x] # NoObj =>
      /\ \E t \in Tasks :
           op[t] = "get" /\ Active(t) /\ k[t] = x /\ notify[t] = notifiers[x]
      /\ map[x] = None

\* C12 (amended): when the registry holds an entry for k, some get(k) in
\* progress holds that Notify, and every task holding it is a get(k) that
\* found no value for k at its first check
C12_EntryHasWaiter ==
  \A x \in Keys :
    notifiers[x] # NoObj =>
      /\ \E t \in Tasks :
           op[t] = "get" /\ Active(t) /\ k[t] = x /\ notify[t] = notifiers[x]
      /\ \A t \in Tasks :
           notify[t] = notifiers[x] =>
             (op[t] = "get" /\ Active(t) /\ k[t] = x /\ missed[t])

\* the registry holds an entry for a key whose value is in the table, and a
\* suspended get holds that entry
C12_Witness ==
  \E x \in Keys : \E t \in Tasks :
    /\ notifiers[x] # NoObj /\ map[x] # None
    /\ notify[t] = notifiers[x] /\ Suspended(t)

\* C15: remove(k) returns the entry of k and deletes it; when k is absent it
\* returns None and the table stays as it is; the other keys' entries and
\* the registry are unchanged by every step of remove
C15_RemoveEffect ==
  [][\A r \in Tasks :
       /\ (pc[r] = "r_start" /\ pc'[r] # pc[r]) =>
            (map' = map /\ notifiers' = notifiers)
       /\ (pc[r] = "r_write" /\ pc'[r] # pc[r]) =>
            /\ pc'[r] = "done"
            /\ result'[r] = map[k[r]]
            /\ map'[k[r]] = None
            /\ \A x \in Keys \ {k[r]} : map'[x] = map[x]
            /\ map[k[r]] = None => map' = map
            /\ notifiers' = notifiers]_vars

\* a remove has returned the value it deleted while the registry holds an entry
C15_Witness ==
  \E r \in Tasks :
    /\ op[r] = "remove" /\ pc[r] = "done" /\ result[r] # None
    /\ map[k[r]] = None
    /\ \E x \in Keys : notifiers[x] # NoObj

\* C18: a get(k) that finds k present at its first check takes the fast path:
\* it returns without suspending, never locks the registry and holds no
\* Notify, and its steps leave the table and the registry unchanged
C18_FastPathNoEffect ==
  /\ [][\A t \in Tasks :
          /\ (pc[t] = "g_check" /\ map[k[t]] # None /\ pc'[t] # pc[t]) =>
               pc'[t] = "g_fast"
          /\ (pc[t] = "g_fast" /\ pc'[t] # pc[t]) => pc'[t] = "g_fastread"
          /\ (pc[t] = "g_fastread" /\ pc'[t] # pc[t]) => pc'[t] = "done"
          /\ (pc[t] \in {"g_start", "g_check", "g_fast", "g_fastread"}
                /\ pc'[t] # pc[t]) =>
               /\ map' = map
               /\ notifiers' = notifiers
               /\ notifiersLock' = notifiersLock
               /\ waiters' = waiters /\ calls' = calls]_vars
  /\ [](\A t \in Tasks :
          pc[t] \in {"g_fast", "g_fastread"} =>
            (notifiersLock # t /\ notify[t] = NoObj /\ ~parked[t] /\ ~missed[t]))

\* a get has returned a value on the fast path
C18_Witness ==
  \E t \in Tasks :
    op[t] = "get" /\ pc[t] = "done" /\ ~missed[t] /\ result[t] # None

\* C19: an insert(k, v) broadcasts only after its write of k is committed and
\* its write guard released; a get resumed by a broadcast finds k present at
\* its re-read unless a remove(k) ran between the write and the re-read
C19_WritePrecedesWake ==
  /\ \A i \in Tasks :
       pc[i] = "i_notify" =>
         /\ ~HoldsMap(i)
         /\ ~removed[i] => map[k[i]] # None
         /\ (~removed[i] /\ ~overwritten[i]) => map[k[i]] = v[i]
  /\ \A t \in Tasks :
       pc[t] = "g_reread" =>
         /\ wakeKind[t] # 0
         /\ map[k[t]] = None => (wakeKind[t] = 2 \/ rmAfterWake[t])

\* a get resumed by a broadcast re-reads the value the broadcasting insert
\* wrote, while that insert has not yet returned
C19_Witness ==
  \E t \in Tasks : \E i \in Tasks :
    /\ pc[t] = "g_reread" /\ wakeKind[t] = 1 /\ map[k[t]] # None
    /\ pc[i] = "i_release" /\ k[i] = k[t] /\ map[k[i]] = v[i]

\* C20: an insert does not hold the registry lock while it broadcasts
C20_BroadcastOutsideLock ==
  \A i \in Tasks : pc[i] = "i_notify" => notifiersLock # i

\* the cancellation of a suspended get leaves the table, the registry and both
\* locks as they are, and every other suspended get suspended
CancelFrame ==
  \A c \in Tasks :
    (pc[c] = "g_wait" /\ pc'[c] = "done") =>
      /\ map' = map /\ mapWriter' = mapWriter /\ mapReaders' = mapReaders
      /\ notifiers' = notifiers /\ notifiersLock' = notifiersLock
      /\ \A t \in Tasks \ {c} :
           /\ pc'[t] = pc[t] /\ notify'[t] = notify[t]
           /\ Suspended(t) => (t \in waiters'[notify'[t]] /\ ~notified'[t])

\* an entry leaves the registry only when an insert on its key detaches it
DetachOnlyByInsert ==
  \A x \in Keys :
    (notifiers[x] # NoObj /\ notifiers'[x] # notifiers[x]) =>
      \E i \in Tasks :
        pc[i] = "i_detach" /\ k[i] = x /\ pc'[i] = "i_notify"
          /\ notify'[i] = notifiers[x]

\* C16: with gets cancelled while they await their Notify: the cancellation
\* changes neither the registry nor a lock nor any other waiter; the entry
\* stays in the registry until an insert(k, _) detaches it; a task outside a
\* call holds no lock and no Notify and is in no waiter list; the broadcast of
\* an insert still notifies every get suspended on the Notify it detached, and
\* the gets suspended on k when the first insert on k is called are no longer
\* suspended when it completes
C16_CancelLeavesMapUsable ==
  /\ [][CancelFrame /\ DetachOnlyByInsert /\ BroadcastWakesAll]_vars
  /\ [](\A t \in Tasks :
          /\ pc[t] \in {"idle", "done"} =>
               /\ ~HoldsMap(t) /\ notifiersLock # t /\ notify[t] = NoObj
               /\ \A o \in Objs : t \notin waiters[o]
          /\ Suspended(t) => t \in waiters[notify[t]])
  /\ [](\A i \in Tasks :
          (pc[i] = "i_release" /\ first[i]) =>
            \A t \in parkedAt[i] : ~Suspended(t))

\* after a get(k) was cancelled while suspended, a get(k) that was suspended
\* has been woken by an insert and re-reads the value
C16_Witness ==
  \E t \in Tasks :
    /\ cancelled[k[t]] /\ pc[t] = "g_reread" /\ parked[t]
    /\ wakeKind[t] = 1 /\ map[k[t]] # None

\* bounded variant: an insert that has passed the gate and not yet released
InFlight(t) ==
  op[t] = "insert" /\ pc[t] \notin {"idle", "done", "b_acquire"}

\* C17: bounded backpressure: at most Capacity inserts are past the gate and
\* not yet released, at most Capacity permits are available, and no get waits
\* at the gate
C17_BoundedBackpressure ==
  /\ Cardinality({t \in Tasks : InFlight(t)}) <= Capacity
  /\ permits <= Capacity
  /\ \A t \in Tasks : op[t] = "get" => pc[t] # "b_acquire"
====
